---- MODULE Spec2Model ----
(***************************************************************************)
(* A model of src/main.py: the two-round generate / publish / notify       *)
(* pipeline of the LLM code deployer.  Strings that the code takes apart   *)
(* (data URLs, model completions) are sequences of tokens, so that the     *)
(* regular expressions and the decoding of the code are computed, not      *)
(* assumed.  The hosting service, the language model and the evaluation    *)
(* server are the environment: every call to them is one step, and each    *)
(* may answer with any of the outcomes its API can produce.                *)
(***************************************************************************)
EXTENDS Integers, Sequences, FiniteSets, TLC

VARIABLES
    repos,      \* hosting service: repository name -> repository state
    pc,         \* per run: position in handle_deployment / process_task
    req,        \* per run: the TaskRequest
    blocks,     \* per run: attachment_blocks (vision content blocks)
    textCtx,    \* per run: attachment_text_context (one entry per appended part)
    toCommit,   \* per run: attachments_to_commit
    existing,   \* per run: existing_code, <<>> for None and <<code>> otherwise
    gen,        \* per run: generated_files, or NoFiles
    staged,     \* per run: files_to_commit of update_and_redeploy_repo
    idx,        \* per run: index of the loop the run is in
    payload,    \* per run: the notification payload, <<>> before it is built
    posts,      \* per run: the payloads POSTed to the evaluation server, in order
    delays,     \* per run: the delays slept by the notifier, in order
    lastStatus, \* per run: status of the last response (0: none, -1: transport error)
    outcome,    \* per run: "running", "rejected", "ok", or "failed"
    failedAt,   \* per run: the stage whose exception ended the run ("" if none)
    llmCalls,   \* per run: number of completions requested
    pubCalls,   \* per run: number of calls of create_/update_and_redeploy_repo
    writes,     \* per run: number of file writes the hosting service accepted
    snapshot,   \* per run: the repository as it was when publish returned
    before,     \* per run: the repository as it was when process_task began
    completion, \* per run: the completion the model returned (<<>> if none)
    written     \* per run: the paths of the writes the hosting service accepted

vars == <<repos, pc, req, blocks, textCtx, toCommit, existing, gen, staged, idx,
          payload, posts, delays, lastStatus, outcome, failedAt, llmCalls,
          pubCalls, writes, snapshot, before, completion, written>>

-----------------------------------------------------------------------------
(* Bounds and input sets *)

MaxAttachments == 1

Runs == {"r1", "r2"}

Tasks == {"t1"}

MY_SECRET == "s3cret"

Secrets == {"s3cret", "wrong"}

Rounds == {1, 2, 3}

-----------------------------------------------------------------------------
(* Sequence helpers *)

Range(s) == {s[i] : i \in DOMAIN s}

Min(S) == CHOOSE x \in S : \A y \in S : x <= y

RECURSIVE Concat(_)
Concat(ss) == IF ss = <<>> THEN <<>> ELSE Head(ss) \o Concat(Tail(ss))

RECURSIVE Pow2(_)
Pow2(n) == IF n = 0 THEN 1 ELSE 2 * Pow2(n - 1)

-----------------------------------------------------------------------------
(* Data URLs: a URL is a sequence of tokens; the tokens "data:", ";",      *)
(* "base64" and "," are the ones the regular expressions look for.         *)

ImageTypes == {"image/png"}

TextTypes == {"text/csv", "text/markdown"}

\* re.match(r"data:(.*?)(;base64)?,(.*)", url): the lazy first group ends at
\* the first place where ";base64," or "," follows.
TagAt(url, p) ==
    /\ p + 2 <= Len(url)
    /\ url[p] = ";" /\ url[p + 1] = "base64" /\ url[p + 2] = ","

DataUrlEnds(url) == {p \in 2..Len(url) : TagAt(url, p) \/ url[p] = ","}

DataUrlMatch(url) ==
    IF Len(url) = 0 \/ url[1] # "data:" \/ DataUrlEnds(url) = {}
    THEN [matched |-> FALSE, mime |-> <<>>, is_base64 |-> FALSE, data |-> <<>>]
    ELSE LET p == Min(DataUrlEnds(url))
             tag == TagAt(url, p)
         IN [matched |-> TRUE,
             mime |-> SubSeq(url, 2, p - 1),
             is_base64 |-> tag,
             data |-> SubSeq(url, IF tag THEN p + 3 ELSE p + 1, Len(url))]

\* re.match(r"data:.*?base64,(.*)", url): the payload follows the first
\* "base64," after "data:".
CommitUrlEnds(url) ==
    {p \in 2..(Len(url) - 1) : url[p] = "base64" /\ url[p + 1] = ","}

CommitUrlMatch(url) ==
    IF Len(url) = 0 \/ url[1] # "data:" \/ CommitUrlEnds(url) = {}
    THEN [matched |-> FALSE, data |-> <<>>]
    ELSE [matched |-> TRUE,
          data |-> SubSeq(url, Min(CommitUrlEnds(url)) + 2, Len(url))]

\* base64.b64decode(data).decode('utf-8') on the payload tokens of the model:
\* "QQ==" is "A", "Qg==" is "B", "QQ" has incorrect padding and "/w==" is the
\* byte 0xff, which is no UTF-8.
DecodableTokens == {"QQ==", "Qg=="}

DecodeToken(t) == IF t = "QQ==" THEN <<"A">> ELSE <<"B">>

DecodePayload(data) ==
    IF \A i \in DOMAIN data : data[i] \in DecodableTokens
    THEN [ok |-> TRUE,
          text |-> Concat([i \in DOMAIN data |-> DecodeToken(data[i])])]
    ELSE [ok |-> FALSE, text |-> <<>>]

MimeStartsWithImage(mime) == mime # <<>> /\ mime[1] \in ImageTypes

MimeIsTextOrData(mime) ==
    /\ mime # <<>>
    /\ \/ mime[1] \in TextTypes
       \/ mime[Len(mime)] = "application/json"
       \/ mime[Len(mime)] = "text/csv"

\* One attachment's contribution to (llm_content_blocks, text_context).
AttachmentContext(att) ==
    LET m == DataUrlMatch(att.url)
        d == DecodePayload(m.data)
        none == [blocks |-> <<>>, text |-> <<>>]
    IN IF ~m.matched THEN none
       ELSE IF ~m.is_base64 THEN none
       ELSE IF MimeStartsWithImage(m.mime)
            THEN [blocks |-> <<[name |-> att.name, url |-> att.url]>>,
                  text |-> <<[kind |-> "image", name |-> att.name, text |-> <<>>]>>]
       ELSE IF MimeIsTextOrData(m.mime)
            THEN IF d.ok
                 THEN [blocks |-> <<>>,
                       text |-> <<[kind |-> "file", name |-> att.name, text |-> d.text]>>]
                 ELSE none
       ELSE none

RECURSIVE get_attachment_context(_)
get_attachment_context(attachments) ==
    IF attachments = <<>> THEN [blocks |-> <<>>, text |-> <<>>]
    ELSE LET h == AttachmentContext(Head(attachments))
             t == get_attachment_context(Tail(attachments))
         IN [blocks |-> h.blocks \o t.blocks, text |-> h.text \o t.text]

\* any(mime in att.url for mime in ['text/csv', 'application/json', 'text/markdown'])
CommitMimes == {"text/csv", "application/json", "text/markdown"}

CommitEligible(att) == \E i \in DOMAIN att.url : att.url[i] \in CommitMimes

attachments_to_commit(attachments) == SelectSeq(attachments, CommitEligible)

-----------------------------------------------------------------------------
(* Model completions: a completion is a sequence of fenced blocks, each a   *)
(* language tag and a body; a body is a sequence of tokens, " " being       *)
(* white space.                                                             *)

RECURSIVE LStrip(_)
LStrip(s) == IF s # <<>> /\ Head(s) = " " THEN LStrip(Tail(s)) ELSE s

RECURSIVE RStrip(_)
RStrip(s) ==
    IF s # <<>> /\ s[Len(s)] = " " THEN RStrip(SubSeq(s, 1, Len(s) - 1)) ELSE s

\* str.strip()
Strip(s) == RStrip(LStrip(s))

\* re.search(r"```<tag>\n(.*?)\n```", content, re.DOTALL): the first block
\* fenced with the tag; <<>> when there is none, <<body>> otherwise.
BlockSearch(content, tag) ==
    LET hits == {i \in DOMAIN content : content[i].tag = tag}
    IN IF hits = {} THEN <<>> ELSE <<content[Min(hits)].body>>

\* "if existing_code:" of Python: None and the empty string are both false.
Truthy(existing_code) == existing_code # <<>> /\ existing_code[1] # <<>>

\* "if not existing_code:" (line 239): the license block is looked for.
LicenseRequired(existing_code) == ~Truthy(existing_code)

NoFiles ==
    [html |-> <<>>, readme |-> <<>>, license |-> <<>>,
     attachments_to_commit |-> <<>>]

\* Lines 224-248 of generate_code_from_brief: the parse of the completion.
\* license is <<>> when the key is not set and <<text>> when it is.
ParseCompletion(content, existing_code) ==
    LET html_match == BlockSearch(content, "html")
        readme_match == BlockSearch(content, "markdown")
        license_match == BlockSearch(content, "text")
    IN IF html_match = <<>> \/ readme_match = <<>>
       THEN [ok |-> FALSE, files |-> NoFiles]
       ELSE IF LicenseRequired(existing_code)
            THEN IF license_match = <<>>
                 THEN [ok |-> FALSE, files |-> NoFiles]
                 ELSE [ok |-> TRUE,
                       files |-> [html |-> Strip(html_match[1]),
                                  readme |-> Strip(readme_match[1]),
                                  license |-> <<Strip(license_match[1])>>,
                                  attachments_to_commit |-> <<>>]]
            ELSE [ok |-> TRUE,
                  files |-> [html |-> Strip(html_match[1]),
                             readme |-> Strip(readme_match[1]),
                             license |-> <<>>,
                             attachments_to_commit |-> <<>>]]

Block(tag, body) == [tag |-> tag, body |-> body]

\* The completions the model may return.
Completions ==
    { <<Block("html", <<"H1">>), Block("markdown", <<"R1">>), Block("text", <<"L1">>)>>,
      <<Block("html", <<" ", "H2", " ">>), Block("markdown", <<"R2">>), Block("text", <<"L2">>)>>,
      <<Block("html", <<"H1">>), Block("markdown", <<"R1">>)>>,
      <<Block("html", <<"H1">>), Block("text", <<"L1">>)>>,
      <<Block("markdown", <<"R1">>), Block("text", <<"L1">>)>>,
      <<Block("html", <<>>), Block("markdown", <<"R1">>), Block("text", <<"L1">>)>> }

-----------------------------------------------------------------------------
(* The hosting service *)

GITHUB_USERNAME == "mohdsamad83"

get_repo_name(task_id) == <<"llm-code-deployer-", task_id>>

RepoNames == {get_repo_name(t) : t \in Tasks}

NoFile == [p \in {} |-> <<>>]

NoRepo == [exists |-> FALSE, files |-> NoFile, head |-> [by |-> "none", n |-> 0]]

EmptyRepo == [exists |-> TRUE, files |-> NoFile, head |-> [by |-> "none", n |-> 0]]

\* A file's content identifier (the revision token of get-file / update-file)
\* is the hash of its content.
BlobSha(content) == [blob |-> content]

HasFile(repo, path) == repo.exists /\ path \in DOMAIN repo.files

\* An accepted create-file or update-file: one commit holding one file.
Commit(repo, r, path, content) ==
    [repo EXCEPT !.files = (path :> content) @@ repo.files,
                 !.head = [by |-> r, n |-> writes[r] + 1]]

RepoOf(r) == get_repo_name(req[r].task)

PriorFiles(files) ==
    [exists |-> TRUE, files |-> files, head |-> [by |-> "init", n |-> 0]]

\* The states the derived repository may be in when a request arrives.
RepoInits ==
    { NoRepo,
      PriorFiles(("index.html" :> <<"H0">>) @@ ("README.md" :> <<"R0">>)
                 @@ ("LICENSE" :> <<"L0">>)),
      PriorFiles(("index.html" :> <<"H0">>) @@ ("README.md" :> <<"R0">>)
                 @@ ("LICENSE" :> <<"L0">>) @@ ("data.csv" :> <<"B">>)),
      PriorFiles(("index.html" :> <<>>) @@ ("README.md" :> <<"R0">>)
                 @@ ("LICENSE" :> <<"L0">>)),
      PriorFiles(("README.md" :> <<"R0">>) @@ ("LICENSE" :> <<"L0">>)),
      PriorFiles(("index.html" :> <<"H0">>) @@ ("LICENSE" :> <<"L0">>)) }

-----------------------------------------------------------------------------
(* Requests *)

Url(mime, rest) == <<"data:">> \o mime \o rest

B64(data) == <<";", "base64", ",", data>>

AttachmentSet ==
    { [name |-> "data.csv", url |-> Url(<<"text/csv">>, B64("QQ=="))],
      [name |-> "logo.png", url |-> Url(<<"image/png">>, B64("QQ=="))],
      [name |-> "data.csv", url |-> Url(<<"text/csv">>, <<",", "QQ==">>)],
      [name |-> "data.csv", url |-> <<"text/csv">> \o B64("QQ==")],
      [name |-> "data.csv", url |-> Url(<<"text/csv">>, B64("QQ"))],
      [name |-> "data.csv",
       url |-> Url(<<"text/csv">>, <<",", "x">> \o B64("QQ=="))],
      [name |-> "LICENSE", url |-> Url(<<"text/markdown">>, B64("QQ=="))],
      [name |-> "index.html", url |-> Url(<<"application/json">>, B64("QQ=="))],
      [name |-> "logo.png",
       url |-> Url(<<"image/png", ";", "name=", "text/csv">>, B64("QQ=="))],
      [name |-> "blob.bin",
       url |-> Url(<<"application/octet-stream">>, B64("QQ=="))] }

RECURSIVE SeqsUpTo(_, _)
SeqsUpTo(S, n) ==
    IF n = 0 THEN {<<>>}
    ELSE LET shorter == SeqsUpTo(S, n - 1)
         IN shorter \cup {Append(s, x) : s \in shorter, x \in S}

Requests ==
    [email : {"a@example.com"}, secret : Secrets, task : Tasks, round : Rounds,
     nonce : {"n1"}, evaluation_url : {"https://eval.example/notify"},
     attachments : SeqsUpTo(AttachmentSet, MaxAttachments)]

NoRequest ==
    [email |-> "", secret |-> "", task |-> "t1", round |-> 0, nonce |-> "",
     evaluation_url |-> "", attachments |-> <<>>]

-----------------------------------------------------------------------------
(* Answers of the hosting service.  gh is what the service does with a     *)
(* well-formed call: "ok", or "error" for a failure of its own.            *)

GhOutcomes == {"ok", "error"}

\* create-repository: 422 when the name is taken.
CreateRepoStatus(repo, gh) ==
    IF gh = "error" THEN 500 ELSE IF repo.exists THEN 422 ELSE 201

\* get-repository
GetRepoStatus(repo, gh) ==
    IF gh = "error" THEN 500 ELSE IF repo.exists THEN 200 ELSE 404

\* get-file
GetContentsStatus(repo, path, gh) ==
    IF gh = "error" THEN 500 ELSE IF HasFile(repo, path) THEN 200 ELSE 404

\* create-file: 422 when the path is already there.
CreateFileStatus(repo, path, gh) ==
    IF gh = "error" THEN 500
    ELSE IF ~repo.exists THEN 404
    ELSE IF path \in DOMAIN repo.files THEN 422 ELSE 201

\* Mutant: update-file is accepted whatever token comes with it.
UpdateFileStatusAnyToken(repo, path, sha, gh) ==
    IF gh = "error" THEN 500
    ELSE IF ~HasFile(repo, path) THEN 404
    ELSE 200

\* update-file: accepted only with the file's current revision token.
UpdateFileStatus(repo, path, sha, gh) ==
    IF gh = "error" THEN 500
    ELSE IF ~HasFile(repo, path) THEN 404
    ELSE IF BlobSha(repo.files[path]) # sha THEN 409 ELSE 200

\* get-branch-head-commit
GetBranchStatus(repo, gh) ==
    IF gh = "error" THEN 500
    ELSE IF repo.exists /\ repo.head.by # "none" THEN 200 ELSE 404

-----------------------------------------------------------------------------
(* The evaluation server and the notifier's policy *)

\* Status of a response; -1 stands for a requests.RequestException.
Responses == {200, 201, 500, -1}

\* for i in range(4)
NotifyAttempts == 4

\* if response.status_code == 200
IsDelivered(status) == status = 200

\* Mutant: a linear backoff.
DelayLinear(i) == i + 1

\* time.sleep(2**i)
Delay(i) == Pow2(i)

-----------------------------------------------------------------------------
(* Initial states: run r1 has a request at the endpoint. *)

InitLocals ==
    /\ blocks = [r \in Runs |-> <<>>]
    /\ textCtx = [r \in Runs |-> <<>>]
    /\ toCommit = [r \in Runs |-> <<>>]
    /\ existing = [r \in Runs |-> <<>>]
    /\ gen = [r \in Runs |-> NoFiles]
    /\ staged = [r \in Runs |-> <<>>]
    /\ idx = [r \in Runs |-> 0]
    /\ payload = [r \in Runs |-> <<>>]
    /\ posts = [r \in Runs |-> <<>>]
    /\ delays = [r \in Runs |-> <<>>]
    /\ lastStatus = [r \in Runs |-> 0]
    /\ outcome = [r \in Runs |-> "running"]
    /\ failedAt = [r \in Runs |-> ""]
    /\ llmCalls = [r \in Runs |-> 0]
    /\ pubCalls = [r \in Runs |-> 0]
    /\ writes = [r \in Runs |-> 0]
    /\ snapshot = [r \in Runs |-> NoRepo]
    /\ before = [r \in Runs |-> NoRepo]
    /\ completion = [r \in Runs |-> <<>>]
    /\ written = [r \in Runs |-> {}]

Init ==
    /\ repos \in [RepoNames -> RepoInits]
    /\ \E q \in Requests : req = [r \in Runs |-> IF r = "r1" THEN q ELSE NoRequest]
    /\ pc = [r \in Runs |-> IF r = "r1" THEN "recv" ELSE "off"]
    /\ InitLocals

-----------------------------------------------------------------------------
(* Steps *)

\* Mutant: the handler goes on to the notification instead of ending the run.
FailThenNotify(r, stage) ==
    /\ pc' = [pc EXCEPT ![r] = IF stage = "notify" THEN "done" ELSE "notify"]
    /\ outcome' = [outcome EXCEPT ![r] = "failed"]
    /\ failedAt' = [failedAt EXCEPT ![r] = stage]

\* Mutant: a failed generation is tried again (twice at most) instead of
\* ending the run.
FailRetryGeneration(r, stage) ==
    IF stage \in {"model", "parse"} /\ llmCalls[r] < 2
    THEN /\ pc' = [pc EXCEPT ![r] = "generate"]
         /\ UNCHANGED <<outcome, failedAt>>
    ELSE /\ pc' = [pc EXCEPT ![r] = "done"]
         /\ outcome' = [outcome EXCEPT ![r] = "failed"]
         /\ failedAt' = [failedAt EXCEPT ![r] = stage]

\* Mutant: the exception is not caught; it leaves the run where it is and
\* stops the worker.
FailUncaught(r, stage) ==
    /\ pc' = [pc EXCEPT ![r] = "crashed"]
    /\ outcome' = [outcome EXCEPT ![r] = "failed"]
    /\ failedAt' = [failedAt EXCEPT ![r] = stage]

\* The except clause of process_task (lines 484-488): the run ends.
Fail(r, stage) ==
    /\ pc' = [pc EXCEPT ![r] = "done"]
    /\ outcome' = [outcome EXCEPT ![r] = "failed"]
    /\ failedAt' = [failedAt EXCEPT ![r] = stage]

Goto(r, label) ==
    /\ pc' = [pc EXCEPT ![r] = label]
    /\ UNCHANGED <<outcome, failedAt>>

notifyVars == <<payload, posts, delays, lastStatus, snapshot>>

genVars == <<gen, completion>>

ctxVars == <<req, blocks, textCtx, toCommit, before>>

\* Mutant: the round is not checked, every request with the right secret is
\* scheduled.
handle_deployment_any_round(r) ==
    /\ pc[r] = "recv"
    /\ IF req[r].secret # MY_SECRET
       THEN /\ pc' = [pc EXCEPT ![r] = "done"]
            /\ outcome' = [outcome EXCEPT ![r] = "rejected"]
            /\ failedAt' = [failedAt EXCEPT ![r] = "403"]
       ELSE Goto(r, "start")
    /\ UNCHANGED <<repos, ctxVars, existing, genVars, staged, idx, notifyVars,
                   llmCalls, pubCalls, writes, written>>

\* POST /api/deploy
handle_deployment(r) ==
    /\ pc[r] = "recv"
    /\ IF req[r].secret # MY_SECRET
       THEN /\ pc' = [pc EXCEPT ![r] = "done"]
            /\ outcome' = [outcome EXCEPT ![r] = "rejected"]
            /\ failedAt' = [failedAt EXCEPT ![r] = "403"]
       ELSE IF req[r].round \in {1, 2}
            THEN Goto(r, "start")
            ELSE /\ pc' = [pc EXCEPT ![r] = "done"]
                 /\ outcome' = [outcome EXCEPT ![r] = "rejected"]
                 /\ failedAt' = [failedAt EXCEPT ![r] = "400"]
    /\ UNCHANGED <<repos, ctxVars, existing, genVars, staged, idx, notifyVars,
                   llmCalls, pubCalls, writes, written>>

\* process_task, lines 425-441: attachments are interpreted and filtered.
StartTask(r) ==
    /\ pc[r] = "start"
    /\ blocks' = [blocks EXCEPT ![r] = get_attachment_context(req[r].attachments).blocks]
    /\ textCtx' = [textCtx EXCEPT ![r] = get_attachment_context(req[r].attachments).text]
    /\ toCommit' = [toCommit EXCEPT ![r] = attachments_to_commit(req[r].attachments)]
    /\ existing' = [existing EXCEPT ![r] = <<>>]
    /\ before' = [before EXCEPT ![r] = repos[RepoOf(r)]]
    /\ Goto(r, IF req[r].round = 2 THEN "prior_repo" ELSE "generate")
    /\ UNCHANGED <<repos, req, genVars, staged, idx, notifyVars, llmCalls, pubCalls, writes, written>>

\* process_task, lines 444-445: user.get_repo(repo_name)
PriorGetRepo(r) ==
    /\ pc[r] = "prior_repo"
    /\ \E gh \in GhOutcomes :
          IF GetRepoStatus(repos[RepoOf(r)], gh) = 200
          THEN Goto(r, "prior_contents")
          ELSE Fail(r, "fetch")
    /\ UNCHANGED <<repos, ctxVars, existing, genVars, staged, idx, notifyVars,
                   llmCalls, pubCalls, writes, written>>

\* Mutant: a missing index.html is taken for "no prior code" and the run
\* goes on to the generation.
PriorGetContentsLenient(r) ==
    /\ pc[r] = "prior_contents"
    /\ \E gh \in GhOutcomes :
          IF GetContentsStatus(repos[RepoOf(r)], "index.html", gh) = 200
          THEN existing' = [existing EXCEPT ![r] = <<repos[RepoOf(r)].files["index.html"]>>]
          ELSE UNCHANGED existing
    /\ Goto(r, "generate")
    /\ UNCHANGED <<repos, ctxVars, genVars, staged, idx, notifyVars, llmCalls,
                   pubCalls, writes, written>>

\* process_task, lines 448-450: repo.get_contents("index.html"), decoded
PriorGetContents(r) ==
    /\ pc[r] = "prior_contents"
    /\ \E gh \in GhOutcomes :
          IF GetContentsStatus(repos[RepoOf(r)], "index.html", gh) = 200
          THEN /\ existing' = [existing EXCEPT ![r] = <<repos[RepoOf(r)].files["index.html"]>>]
               /\ Goto(r, "generate")
          ELSE /\ Fail(r, "fetch")
               /\ UNCHANGED existing
    /\ UNCHANGED <<repos, ctxVars, genVars, staged, idx, notifyVars, llmCalls,
                   pubCalls, writes, written>>

\* generate_code_from_brief (lines 212-248) and line 461: the completion is
\* requested once; a failed call and a failed parse both raise.
LlmResults == {<<"error", <<>>>>} \cup {<<"ok", c>> : c \in Completions}

Generate(r) ==
    /\ pc[r] = "generate"
    /\ llmCalls' = [llmCalls EXCEPT ![r] = @ + 1]
    /\ \E res \in LlmResults :
          IF res[1] = "error"
          THEN /\ Fail(r, "model")
               /\ UNCHANGED genVars
          ELSE LET parsed == ParseCompletion(res[2], existing[r])
               IN /\ completion' = [completion EXCEPT ![r] = res[2]]
                  /\ IF parsed.ok
                     THEN /\ gen' = [gen EXCEPT ![r] =
                                [parsed.files EXCEPT !.attachments_to_commit = toCommit[r]]]
                          /\ Goto(r, IF req[r].round = 1
                                     THEN "create_repo" ELSE "update_repo")
                     ELSE /\ Fail(r, "parse")
                          /\ UNCHANGED gen
    /\ UNCHANGED <<repos, ctxVars, existing, staged, idx, notifyVars, pubCalls,
                   writes, written>>

\* An accepted write of run r to its repository.
WriteFile(r, path, content) ==
    /\ repos' = [repos EXCEPT ![RepoOf(r)] = Commit(@, r, path, content)]
    /\ writes' = [writes EXCEPT ![r] = @ + 1]
    /\ written' = [written EXCEPT ![r] = @ \cup {path}]

NoWrite == UNCHANGED <<repos, writes, written>>

CorePaths == <<"index.html", "README.md", "LICENSE">>

\* Mutant: the 422 of a taken name is not raised (a fallback to the
\* repository that is there).
RaisesOnCreateNotConflict(status) == status \notin {201, 422}

\* create_and_deploy_repo, lines 260-267: every GithubException of
\* create_repo is raised again, the 422 of a taken name as an HTTPException.
RaisesOnCreate(status) == status # 201

\* create_and_deploy_repo, lines 254-267: user.create_repo(...)
CreateRepo(r) ==
    /\ pc[r] = "create_repo"
    /\ pubCalls' = [pubCalls EXCEPT ![r] = @ + 1]
    /\ \E gh \in GhOutcomes :
          IF ~RaisesOnCreate(CreateRepoStatus(repos[RepoOf(r)], gh))
          THEN /\ repos' = [repos EXCEPT ![RepoOf(r)] =
                     IF CreateRepoStatus(@, gh) = 201 THEN EmptyRepo ELSE @]
               /\ idx' = [idx EXCEPT ![r] = 1]
               /\ Goto(r, "create_core")
          ELSE /\ Fail(r, "create_repo")
               /\ UNCHANGED <<repos, idx>>
    /\ UNCHANGED <<ctxVars, existing, genVars, staged, notifyVars, llmCalls, writes, written>>

\* Mutant: a refused create_file deletes the repository the run has just
\* created.
CreateCoreFileCleanup(r) ==
    /\ pc[r] = "create_core"
    /\ LET i == idx[r]
           content == <<gen[r].html, gen[r].readme,
                        IF gen[r].license = <<>> THEN <<>> ELSE gen[r].license[1]>>[i]
       IN \E gh \in GhOutcomes :
             IF /\ ~(i = 3 /\ gen[r].license = <<>>)
                /\ CreateFileStatus(repos[RepoOf(r)], CorePaths[i], gh) = 201
             THEN /\ WriteFile(r, CorePaths[i], content)
                  /\ IF i < 3
                     THEN /\ idx' = [idx EXCEPT ![r] = i + 1]
                          /\ Goto(r, "create_core")
                     ELSE /\ idx' = [idx EXCEPT ![r] = 1]
                          /\ Goto(r, IF gen[r].attachments_to_commit = <<>>
                                     THEN "create_head" ELSE "create_att")
             ELSE /\ Fail(r, "create_file")
                  /\ repos' = [repos EXCEPT ![RepoOf(r)] = NoRepo]
                  /\ UNCHANGED <<writes, written, idx>>
    /\ UNCHANGED <<ctxVars, existing, genVars, staged, notifyVars, llmCalls, pubCalls>>

\* create_and_deploy_repo, lines 270-272: the three repo.create_file calls,
\* one per step; files["license"] raises KeyError when the key is not set.
CreateCoreFile(r) ==
    /\ pc[r] = "create_core"
    /\ LET i == idx[r]
           content == <<gen[r].html, gen[r].readme,
                        IF gen[r].license = <<>> THEN <<>> ELSE gen[r].license[1]>>[i]
       IN \E gh \in GhOutcomes :
             IF /\ ~(i = 3 /\ gen[r].license = <<>>)
                /\ CreateFileStatus(repos[RepoOf(r)], CorePaths[i], gh) = 201
             THEN /\ WriteFile(r, CorePaths[i], content)
                  /\ IF i < 3
                     THEN /\ idx' = [idx EXCEPT ![r] = i + 1]
                          /\ Goto(r, "create_core")
                     ELSE /\ idx' = [idx EXCEPT ![r] = 1]
                          /\ Goto(r, IF gen[r].attachments_to_commit = <<>>
                                     THEN "create_head" ELSE "create_att")
             ELSE /\ Fail(r, "create_file")
                  /\ NoWrite
                  /\ UNCHANGED idx
    /\ UNCHANGED <<ctxVars, existing, genVars, staged, notifyVars, llmCalls, pubCalls>>

\* Mutant: the attachment is read by attribute (attachment.url), which an
\* Attachment supports.
SubscriptAsAttribute(att, key) == [raised |-> FALSE, value |-> att[key]]

\* attachment["url"], attachment["name"] (lines 280, 283-288, 350-369): the
\* elements of attachments_to_commit are Attachment objects (lines 39-41,
\* 434-437), a pydantic BaseModel has no __getitem__, and the subscript
\* raises TypeError.
Subscript(att, key) == [raised |-> TRUE, value |-> <<>>]

\* create_and_deploy_repo, lines 277-288: one attachment of
\* attachments_to_commit. A failure inside the try is caught at line 287; the
\* handler formats attachment['name'] into its message, and an exception
\* raised there leaves the function.
CreateAttachment(r) ==
    /\ pc[r] = "create_att"
    /\ LET att == gen[r].attachments_to_commit[idx[r]]
           url == Subscript(att, "url")
           name == Subscript(att, "name")
           m == CommitUrlMatch(url.value)
           d == DecodePayload(m.data)
       IN IF name.raised
          THEN /\ Fail(r, "create_att")
               /\ NoWrite
               /\ UNCHANGED idx
          ELSE /\ \E gh \in GhOutcomes :
                     IF /\ ~url.raised
                        /\ m.matched
                        /\ d.ok
                        /\ CreateFileStatus(repos[RepoOf(r)], name.value, gh) = 201
                     THEN WriteFile(r, name.value, d.text)
                     ELSE NoWrite
               /\ idx' = [idx EXCEPT ![r] = @ + 1]
               /\ Goto(r, IF idx[r] < Len(gen[r].attachments_to_commit)
                          THEN "create_att" ELSE "create_head")
    /\ UNCHANGED <<ctxVars, existing, genVars, staged, notifyVars, llmCalls, pubCalls>>

\* Mutant: the payload carries the head the run found when it began, not the
\* one read after its writes.
BuildPayloadStaleHead(r, repo) ==
    [email |-> req[r].email,
     task |-> req[r].task,
     round |-> req[r].round,
     nonce |-> req[r].nonce,
     repo_url |-> <<"https://github.com/", GITHUB_USERNAME, RepoOf(r)>>,
     commit_sha |-> before[r].head,
     pages_url |-> <<"https://", GITHUB_USERNAME, ".github.io/", RepoOf(r), "/">>]

\* The payload of process_task, lines 472-480, from the deployment result
\* (lines 296-303 and 389-396).
BuildPayload(r, repo) ==
    [email |-> req[r].email,
     task |-> req[r].task,
     round |-> req[r].round,
     nonce |-> req[r].nonce,
     repo_url |-> <<"https://github.com/", GITHUB_USERNAME, RepoOf(r)>>,
     commit_sha |-> repo.head,
     pages_url |-> <<"https://", GITHUB_USERNAME, ".github.io/", RepoOf(r), "/">>]

\* repo.get_branch("main").commit.sha, the return of the deployment result
\* and the payload built from it.
ReturnDeployment(r) ==
    /\ \E gh \in GhOutcomes :
          IF GetBranchStatus(repos[RepoOf(r)], gh) = 200
          THEN /\ payload' = [payload EXCEPT ![r] = <<BuildPayload(r, repos[RepoOf(r)])>>]
               /\ snapshot' = [snapshot EXCEPT ![r] = repos[RepoOf(r)]]
               /\ idx' = [idx EXCEPT ![r] = 0]
               /\ Goto(r, "notify")
          ELSE /\ Fail(r, "head")
               /\ UNCHANGED <<payload, snapshot, idx>>
    /\ UNCHANGED <<repos, ctxVars, existing, genVars, staged, posts, delays,
                   lastStatus, llmCalls, pubCalls, writes, written>>

\* create_and_deploy_repo, lines 290-303
CreateGetBranch(r) ==
    /\ pc[r] = "create_head"
    /\ ReturnDeployment(r)

\* update_and_redeploy_repo, lines 308-316: user.get_repo(repo_name)
UpdateGetRepo(r) ==
    /\ pc[r] = "update_repo"
    /\ pubCalls' = [pubCalls EXCEPT ![r] = @ + 1]
    /\ staged' = [staged EXCEPT ![r] = <<>>]
    /\ \E gh \in GhOutcomes :
          IF GetRepoStatus(repos[RepoOf(r)], gh) = 200
          THEN Goto(r, "stage_html")
          ELSE Fail(r, "get_repo")
    /\ UNCHANGED <<repos, ctxVars, existing, genVars, idx, notifyVars, llmCalls, writes, written>>

Staged(path, content, sha) == [path |-> path, content |-> content, sha |-> sha]

\* update_and_redeploy_repo, lines 318-330: index.html is staged
StageHtml(r) ==
    /\ pc[r] = "stage_html"
    /\ \E gh \in GhOutcomes :
          IF GetContentsStatus(repos[RepoOf(r)], "index.html", gh) = 200
          THEN /\ staged' = [staged EXCEPT ![r] =
                     Append(@, Staged("index.html", gen[r].html,
                                      BlobSha(repos[RepoOf(r)].files["index.html"])))]
               /\ Goto(r, "stage_readme")
          ELSE /\ Fail(r, "stage")
               /\ UNCHANGED staged
    /\ UNCHANGED <<repos, ctxVars, existing, genVars, idx, notifyVars, llmCalls,
                   pubCalls, writes, written>>

\* update_and_redeploy_repo, lines 332-345: README.md is staged
StageReadme(r) ==
    /\ pc[r] = "stage_readme"
    /\ \E gh \in GhOutcomes :
          IF GetContentsStatus(repos[RepoOf(r)], "README.md", gh) = 200
          THEN /\ staged' = [staged EXCEPT ![r] =
                     Append(@, Staged("README.md", gen[r].readme,
                                      BlobSha(repos[RepoOf(r)].files["README.md"])))]
               /\ idx' = [idx EXCEPT ![r] = 1]
               /\ Goto(r, IF gen[r].attachments_to_commit = <<>>
                          THEN "commit" ELSE "stage_att")
          ELSE /\ Fail(r, "stage")
               /\ UNCHANGED <<staged, idx>>
    /\ UNCHANGED <<repos, ctxVars, existing, genVars, notifyVars, llmCalls,
                   pubCalls, writes, written>>

\* update_and_redeploy_repo, lines 348-372: one attachment of
\* attachments_to_commit is staged for update when its file exists and is
\* created at once when it does not. A failure inside the try is caught at
\* line 371; the handler formats attachment['name'] into its message, and an
\* exception raised there leaves the function.
StageAttachment(r) ==
    /\ pc[r] = "stage_att"
    /\ LET att == gen[r].attachments_to_commit[idx[r]]
           url == Subscript(att, "url")
           name == Subscript(att, "name")
           m == CommitUrlMatch(url.value)
           d == DecodePayload(m.data)
           repo == repos[RepoOf(r)]
       IN IF name.raised
          THEN /\ Fail(r, "stage_att")
               /\ NoWrite
               /\ UNCHANGED <<staged, idx>>
          ELSE /\ \E gh \in GhOutcomes, gh2 \in GhOutcomes :
                     LET found == GetContentsStatus(repo, name.value, gh)
                     IN IF url.raised \/ ~(m.matched /\ d.ok)
                        THEN NoWrite /\ UNCHANGED staged
                        ELSE IF found = 200
                        THEN /\ staged' = [staged EXCEPT ![r] =
                                   Append(@, Staged(name.value, d.text,
                                                    BlobSha(repo.files[name.value])))]
                             /\ NoWrite
                        ELSE IF found = 404 /\ CreateFileStatus(repo, name.value, gh2) = 201
                        THEN WriteFile(r, name.value, d.text) /\ UNCHANGED staged
                        ELSE NoWrite /\ UNCHANGED staged
               /\ idx' = [idx EXCEPT ![r] =
                            IF @ < Len(gen[r].attachments_to_commit) THEN @ + 1 ELSE 1]
               /\ Goto(r, IF idx[r] < Len(gen[r].attachments_to_commit)
                          THEN "stage_att" ELSE "commit")
    /\ UNCHANGED <<ctxVars, existing, genVars, notifyVars, llmCalls, pubCalls>>

\* Mutant: a refused update rolls the repository back to the state the run
\* found.
CommitStagedRollback(r) ==
    /\ pc[r] = "commit"
    /\ LET f == staged[r][idx[r]]
       IN \E gh \in GhOutcomes :
             IF UpdateFileStatus(repos[RepoOf(r)], f.path, f.sha, gh) = 200
             THEN /\ WriteFile(r, f.path, f.content)
                  /\ idx' = [idx EXCEPT ![r] = @ + 1]
                  /\ Goto(r, IF idx[r] < Len(staged[r]) THEN "commit" ELSE "update_head")
             ELSE /\ Fail(r, "commit")
                  /\ repos' = [repos EXCEPT ![RepoOf(r)] = before[r]]
                  /\ UNCHANGED <<writes, written, idx>>
    /\ UNCHANGED <<ctxVars, existing, genVars, staged, notifyVars, llmCalls, pubCalls>>

\* update_and_redeploy_repo, lines 374-384: one repo.update_file of the
\* staged list; a refused update raises out of the function.
CommitStaged(r) ==
    /\ pc[r] = "commit"
    /\ LET f == staged[r][idx[r]]
       IN \E gh \in GhOutcomes :
             IF UpdateFileStatus(repos[RepoOf(r)], f.path, f.sha, gh) = 200
             THEN /\ WriteFile(r, f.path, f.content)
                  /\ idx' = [idx EXCEPT ![r] = @ + 1]
                  /\ Goto(r, IF idx[r] < Len(staged[r]) THEN "commit" ELSE "update_head")
             ELSE /\ Fail(r, "commit")
                  /\ NoWrite
                  /\ UNCHANGED idx
    /\ UNCHANGED <<ctxVars, existing, genVars, staged, notifyVars, llmCalls, pubCalls>>

\* update_and_redeploy_repo, lines 386-396
UpdateGetBranch(r) ==
    /\ pc[r] = "update_head"
    /\ ReturnDeployment(r)

\* Mutant: every attempt sends the payload with the attempt number added to
\* the round.
NotifyPostStamped(r) ==
    /\ pc[r] = "notify"
    /\ posts' = [posts EXCEPT ![r] =
                    Append(@, [payload[r][1] EXCEPT !.round = @ + idx[r]])]
    /\ \E status \in Responses :
          /\ lastStatus' = [lastStatus EXCEPT ![r] = status]
          /\ IF status # -1 /\ IsDelivered(status)
             THEN /\ pc' = [pc EXCEPT ![r] = "done"]
                  /\ outcome' = [outcome EXCEPT ![r] = "ok"]
                  /\ UNCHANGED failedAt
             ELSE Goto(r, "notify_sleep")
    /\ UNCHANGED <<repos, ctxVars, existing, genVars, staged, idx, payload, delays,
                   snapshot, llmCalls, pubCalls, writes, written>>

\* notify_evaluation_server, lines 403-412: one requests.post
NotifyPost(r) ==
    /\ pc[r] = "notify"
    /\ posts' = [posts EXCEPT ![r] = Append(@, payload[r][1])]
    /\ \E status \in Responses :
          /\ lastStatus' = [lastStatus EXCEPT ![r] = status]
          /\ IF status # -1 /\ IsDelivered(status)
             THEN /\ pc' = [pc EXCEPT ![r] = "done"]
                  /\ outcome' = [outcome EXCEPT ![r] = "ok"]
                  /\ UNCHANGED failedAt
             ELSE Goto(r, "notify_sleep")
    /\ UNCHANGED <<repos, ctxVars, existing, genVars, staged, idx, payload, delays,
                   snapshot, llmCalls, pubCalls, writes, written>>

\* Mutant: the notifier returns after the last attempt instead of raising.
NotifySleepNoRaise(r) ==
    /\ pc[r] = "notify_sleep"
    /\ delays' = [delays EXCEPT ![r] = Append(@, Delay(idx[r]))]
    /\ idx' = [idx EXCEPT ![r] = @ + 1]
    /\ IF idx[r] + 1 < NotifyAttempts
       THEN Goto(r, "notify")
       ELSE /\ pc' = [pc EXCEPT ![r] = "done"]
            /\ outcome' = [outcome EXCEPT ![r] = "ok"]
            /\ UNCHANGED failedAt
    /\ UNCHANGED <<repos, ctxVars, existing, genVars, staged, payload, posts,
                   lastStatus, snapshot, llmCalls, pubCalls, writes, written>>

\* notify_evaluation_server, lines 414-419: the sleep after a failed attempt,
\* and the raise once the loop is over.
NotifySleep(r) ==
    /\ pc[r] = "notify_sleep"
    /\ delays' = [delays EXCEPT ![r] = Append(@, Delay(idx[r]))]
    /\ idx' = [idx EXCEPT ![r] = @ + 1]
    /\ IF idx[r] + 1 < NotifyAttempts
       THEN Goto(r, "notify")
       ELSE Fail(r, "notify")
    /\ UNCHANGED <<repos, ctxVars, existing, genVars, staged, payload, posts,
                   lastStatus, snapshot, llmCalls, pubCalls, writes, written>>

\* One step of the run r.
RunStep(r) ==
    \/ handle_deployment(r)
    \/ StartTask(r)
    \/ PriorGetRepo(r)
    \/ PriorGetContents(r)
    \/ Generate(r)
    \/ CreateRepo(r)
    \/ CreateCoreFile(r)
    \/ CreateAttachment(r)
    \/ CreateGetBranch(r)
    \/ UpdateGetRepo(r)
    \/ StageHtml(r)
    \/ StageReadme(r)
    \/ StageAttachment(r)
    \/ CommitStaged(r)
    \/ UpdateGetBranch(r)
    \/ NotifyPost(r)
    \/ NotifySleep(r)

Next == \E r \in Runs : RunStep(r)

Spec == Init /\ [][Next]_vars

-----------------------------------------------------------------------------
(* Two requests for the same task arrive; process_task is a synchronous     *)
(* function, which the BackgroundTasks of line 508 run in the thread pool,  *)
(* so the two runs interleave at every call they make.                      *)

ConcAttachments ==
    { <<>>, <<[name |-> "data.csv", url |-> Url(<<"text/csv">>, B64("QQ=="))]>> }

ConcRequests ==
    {q \in Requests : /\ q.secret = MY_SECRET
                      /\ q.round \in {1, 2}
                      /\ q.attachments \in ConcAttachments}

ConcRepoInits ==
    { NoRepo,
      PriorFiles(("index.html" :> <<"H0">>) @@ ("README.md" :> <<"R0">>)
                 @@ ("LICENSE" :> <<"L0">>)) }

InitConc ==
    /\ repos \in [RepoNames -> ConcRepoInits]
    /\ req \in [Runs -> ConcRequests]
    /\ req["r2"].attachments = <<>>
    /\ pc = [r \in Runs |-> "recv"]
    /\ InitLocals

SpecConc == InitConc /\ [][Next]_vars

\* A round-1 and a round-2 request for the same task arrive together, one of
\* them with an attachment.
InitBoth ==
    /\ repos \in [RepoNames -> ConcRepoInits]
    /\ req \in [Runs -> ConcRequests]
    /\ req["r1"].round = 1
    /\ req["r2"].round = 2
    /\ req["r1"].attachments # req["r2"].attachments
    /\ pc = [r \in Runs |-> "recv"]
    /\ InitLocals

\* Every call a run makes returns (each has a timeout or an answer) and the
\* thread pool schedules every run: a run that can take a step takes one.
FairConc == InitBoth /\ [][Next]_vars /\ \A r \in Runs : WF_vars(RunStep(r))

-----------------------------------------------------------------------------
(* Properties *)

CoreSet == Range(CorePaths)

Eligible(r) == SelectSeq(req[r].attachments, CommitEligible)

\* The URL is not parsed by the interpreter, or parsed without the base64 tag.
BadUrl(att) ==
    ~DataUrlMatch(att.url).matched \/ ~DataUrlMatch(att.url).is_base64

C2_ExistingRepoAborts ==
    \A r \in Runs :
        (/\ req[r].round = 1
         /\ outcome[r] # "rejected"
         /\ before[r].exists
         /\ pc[r] \notin {"recv", "start", "generate", "create_repo"}) =>
            /\ pc[r] = "done" /\ outcome[r] = "failed"
            /\ failedAt[r] \in {"model", "parse", "create_repo"}
            /\ writes[r] = 0
            /\ repos[RepoOf(r)] = before[r]
            /\ posts[r] = <<>>

\* A round-1 run met the conflict at create_repo.
C2_Witness ==
    \E r \in Runs :
        /\ req[r].round = 1 /\ before[r].exists
        /\ failedAt[r] = "create_repo" /\ llmCalls[r] = 1

\* C3: a round-2 run whose repository is absent, or has no index.html,
\* aborts at the fetch of the prior state: from there on the run has ended
\* as failed at that stage with no completion requested, no publish call, no
\* write and no POST.
C3_MissingPriorAborts ==
    \A r \in Runs :
        (/\ req[r].round = 2
         /\ outcome[r] # "rejected"
         /\ ~HasFile(before[r], "index.html")
         /\ pc[r] \notin {"recv", "start", "prior_repo", "prior_contents"}) =>
            /\ pc[r] = "done" /\ outcome[r] = "failed"
            /\ failedAt[r] = "fetch"
            /\ llmCalls[r] = 0 /\ pubCalls[r] = 0 /\ writes[r] = 0
            /\ repos[RepoOf(r)] = before[r]
            /\ posts[r] = <<>>

\* A round-2 run aborted at the fetch of index.html of a repository that is
\* there.
C3_Witness ==
    \E r \in Runs :
        /\ req[r].round = 2 /\ before[r].exists
        /\ ~HasFile(before[r], "index.html")
        /\ failedAt[r] = "fetch"

\* C4: a round-2 run on a repository holding the three files of round 1
\* that ends delivered has overwritten index.html and README.md with the
\* generated content and left LICENSE as it was.
C4_LicenseUntouched ==
    \A r \in Runs :
        (/\ req[r].round = 2 /\ outcome[r] = "ok"
         /\ CoreSet \subseteq DOMAIN before[r].files) =>
            LET repo == repos[RepoOf(r)]
            IN /\ repo.files["index.html"] = gen[r].html
               /\ repo.files["README.md"] = gen[r].readme
               /\ HasFile(repo, "LICENSE")
               /\ repo.files["LICENSE"] = before[r].files["LICENSE"]

\* A delivered round-2 run changed index.html and README.md of a repository
\* that held the three files.
C4_Witness ==
    \E r \in Runs :
        /\ req[r].round = 2 /\ outcome[r] = "ok"
        /\ CoreSet \subseteq DOMAIN before[r].files
        /\ before[r].files["index.html"] # gen[r].html
        /\ before[r].files["README.md"] # gen[r].readme
        /\ writes[r] = 2

\* C5 as stated: an attachment whose URL is not parsed, or not base64-tagged,
\* adds nothing to the context and is not committed, and no attachment makes
\* a run fail: no run ends inside the attachment loop of a publishing
\* function.
C5_AttachmentsHarmless ==
    \A r \in Runs :
        /\ \A i \in DOMAIN req[r].attachments :
              LET att == req[r].attachments[i]
                  others == {k \in DOMAIN req[r].attachments :
                                /\ req[r].attachments[k].name = att.name
                                /\ ~BadUrl(req[r].attachments[k])}
              IN (BadUrl(att) /\ others = {}) =>
                    /\ \A j \in DOMAIN textCtx[r] : textCtx[r][j].name # att.name
                    /\ \A j \in DOMAIN blocks[r] : blocks[r][j].name # att.name
                    /\ att.name \in written[r] => att.name \in CoreSet
        /\ failedAt[r] \notin {"create_att", "stage_att"}

\* C6 as stated: at most 4 attempts, and a response with any 2xx status ends
\* the loop as delivered.
C6_AnySuccessStatusDelivers ==
    \A r \in Runs :
        /\ Len(posts[r]) <= 4
        /\ lastStatus[r] \in 200..299 => (pc[r] = "done" /\ outcome[r] = "ok")

\* C7 as stated: every delay precedes another attempt, so a run that has
\* ended has made more attempts than it has taken delays.
C7_DelaysPrecedeAttempts ==
    \A r \in Runs :
        (pc[r] = "done" /\ delays[r] # <<>>) => Len(delays[r]) < Len(posts[r])

\* C7 as amended: after each attempt that does not end the loop (attempt i,
\* counted from zero) the notifier waits 2^i seconds, so the delays follow
\* 1, 2, 4, 8; after attempts 0, 1 and 2 the wait is followed by the next
\* attempt, and after the fourth attempt the notifier still waits 8 seconds
\* and then fails without another attempt.
C7_BackoffSequence ==
    \A r \in Runs :
        /\ Len(delays[r]) <= 4
        /\ delays[r] = SubSeq(<<1, 2, 4, 8>>, 1, Len(delays[r]))
        /\ pc[r] = "notify" => Len(posts[r]) = Len(delays[r]) /\ Len(posts[r]) < 4
        /\ pc[r] = "notify_sleep" => Len(posts[r]) = Len(delays[r]) + 1
        /\ outcome[r] = "ok" => Len(posts[r]) = Len(delays[r]) + 1
        /\ failedAt[r] = "notify" =>
              /\ delays[r] = <<1, 2, 4, 8>>
              /\ Len(posts[r]) = 4

\* The notifier slept 8 seconds after its fourth attempt and failed.
C7_Witness ==
    \E r \in Runs :
        /\ pc[r] = "done" /\ delays[r] = <<1, 2, 4, 8>> /\ Len(posts[r]) = 4

\* C8: a run that has ended after a last notification attempt without a
\* success status (a transport error or a status outside 2xx) has ended as
\* failed at the notifier after 4 POSTs, having requested one completion and
\* published once, and its repository is as the publish step left it.
C8_ExhaustedNotifierFails ==
    \A r \in Runs :
        (pc[r] = "done" /\ posts[r] # <<>> /\ lastStatus[r] \notin 200..299) =>
            /\ outcome[r] = "failed" /\ failedAt[r] = "notify"
            /\ Len(posts[r]) = 4
            /\ llmCalls[r] = 1 /\ pubCalls[r] = 1
            /\ repos[RepoOf(r)] = snapshot[r]
            /\ snapshot[r].exists

\* A run ended as failed at the notifier with its repository published.
C8_Witness ==
    \E r \in Runs :
        /\ failedAt[r] = "notify" /\ writes[r] > 0
        /\ repos[RepoOf(r)] = snapshot[r] /\ repos[RepoOf(r)] # before[r]

\* C9: a POST is sent, and the notifier is entered, only once the publish
\* step has returned its result; a run that failed before that has sent no
\* POST, and one that failed at the model call or at the parse has written
\* nothing and has not called publish.
C9_NotifyOnlyAfterPublish ==
    \A r \in Runs :
        /\ (posts[r] # <<>> \/ pc[r] \in {"notify", "notify_sleep"}) =>
              /\ payload[r] # <<>>
              /\ pubCalls[r] = 1
              /\ failedAt[r] \in {"", "notify"}
        /\ failedAt[r] \notin {"", "notify"} => posts[r] = <<>> /\ payload[r] = <<>>
        /\ failedAt[r] \in {"model", "parse"} =>
              /\ writes[r] = 0 /\ pubCalls[r] = 0
              /\ repos[RepoOf(r)] = before[r]
              /\ posts[r] = <<>>

\* A round-2 run on an existing repository failed at the parse.
C9_Witness ==
    \E r \in Runs :
        /\ failedAt[r] = "parse" /\ req[r].round = 2 /\ before[r].exists
        /\ llmCalls[r] = 1

HasBlock(content, tag) == \E i \in DOMAIN content : content[i].tag = tag

\* C10 as stated: the parse of a round-1 run fails exactly when one of the
\* three blocks is missing, and the parse of a round-2 run fails exactly when
\* the markup or the documentation block is missing, whatever the prior
\* markup.
C10_ParsePerRound ==
    \A r \in Runs :
        (llmCalls[r] = 1 /\ failedAt[r] # "model") =>
            /\ req[r].round = 1 =>
                  (failedAt[r] = "parse" <=>
                      ~(/\ HasBlock(completion[r], "html")
                        /\ HasBlock(completion[r], "markdown")
                        /\ HasBlock(completion[r], "text")))
            /\ req[r].round = 2 =>
                  (failedAt[r] = "parse" <=>
                      ~(/\ HasBlock(completion[r], "html")
                        /\ HasBlock(completion[r], "markdown")))

\* C11: a request is handed to the background (process_task is scheduled)
\* exactly when its secret equals MY_SECRET and its round is 1 or 2; every
\* other request is rejected by the handler itself, with 403 for the secret
\* and 400 for the round, and no step of the pipeline is ever taken for it.
Accepted(r) == req[r].secret = MY_SECRET /\ req[r].round \in {1, 2}

C11_ScheduledIffAccepted ==
    \A r \in Runs :
        pc[r] \notin {"off", "recv"} =>
            /\ (outcome[r] # "rejected") <=> Accepted(r)
            /\ outcome[r] = "rejected" =>
                  /\ pc[r] = "done"
                  /\ failedAt[r] = (IF req[r].secret # MY_SECRET THEN "403" ELSE "400")
                  /\ llmCalls[r] = 0 /\ pubCalls[r] = 0 /\ writes[r] = 0
                  /\ posts[r] = <<>> /\ blocks[r] = <<>> /\ toCommit[r] = <<>>
                  /\ before[r] = NoRepo /\ payload[r] = <<>>

\* A request with the right secret and round 3 has been rejected.
C11_Witness ==
    \E r \in Runs :
        /\ outcome[r] = "rejected"
        /\ req[r].secret = MY_SECRET
        /\ req[r].round = 3

\* C19: within one run the completion is requested at most once and the
\* publishing function (create_and_deploy_repo or update_and_redeploy_repo)
\* is entered at most once, and both exactly once before any notification;
\* only the notification POST is repeated (up to NotifyAttempts times).
C19_PipelineRunsOnce ==
    \A r \in Runs :
        /\ llmCalls[r] <= 1
        /\ pubCalls[r] <= 1
        /\ pubCalls[r] = 1 => llmCalls[r] = 1
        /\ posts[r] # <<>> => pubCalls[r] = 1
        /\ Len(posts[r]) <= NotifyAttempts

\* The POST has been sent four times after one completion and one publish.
C19_Witness ==
    \E r \in Runs :
        /\ Len(posts[r]) = NotifyAttempts
        /\ llmCalls[r] = 1
        /\ pubCalls[r] = 1

\* The staged entries of run r that were committed before entry k.
CommittedBefore(r, k, path) == {j \in 1..(k - 1) : staged[r][j].path = path}

Max(S) == CHOOSE x \in S : \A y \in S : y <= x

\* C14: when an update of the round-2 commit loop is refused after earlier
\* ones were accepted, nothing is rolled back: the run ends as failed, no
\* notification is sent, every file whose staged entry was committed holds
\* the committed content, and every other file holds what it held before
\* the run (or is an attachment the run created while staging).
C14_PartialCommitStays ==
    \A r \in Runs :
        failedAt[r] = "commit" =>
            LET files == repos[RepoOf(r)].files
                k == idx[r]
            IN /\ pc[r] = "done" /\ outcome[r] = "failed"
               /\ posts[r] = <<>> /\ payload[r] = <<>>
               /\ k \in 1..Len(staged[r])
               /\ writes[r] >= k - 1
               /\ DOMAIN before[r].files \subseteq DOMAIN files
               /\ \A p \in DOMAIN files :
                     IF CommittedBefore(r, k, p) # {}
                     THEN files[p] = staged[r][Max(CommittedBefore(r, k, p))].content
                     ELSE IF p \in DOMAIN before[r].files
                     THEN files[p] = before[r].files[p]
                     ELSE p \in written[r]

\* The update of README.md was refused after index.html had been committed
\* with content that differs from the prior one.
C14_Witness ==
    \E r \in Runs :
        /\ failedAt[r] = "commit"
        /\ idx[r] = 2
        /\ repos[RepoOf(r)].files["index.html"] = gen[r].html
        /\ before[r].files["index.html"] # gen[r].html
        /\ repos[RepoOf(r)].files["README.md"] = before[r].files["README.md"]
        /\ before[r].files["README.md"] # gen[r].readme

\* The publishing function of run r has gone through all its writes.
Published(r) ==
    \/ pc[r] \in {"create_head", "update_head", "notify", "notify_sleep"}
    \/ (pc[r] = "done" /\ failedAt[r] \in {"head", "notify"})
    \/ outcome[r] = "ok"

\* C16 as stated: in a round-2 update nothing is written before the blob
\* identifiers of index.html and README.md are both fetched (a failed fetch
\* ends the run with nothing written), and then every commit-eligible
\* attachment is handled: the run does not end inside the attachment loop,
\* an attachment whose file was there is staged with the fetched identifier,
\* and once the writes are through every commit-eligible attachment has
\* been written.
C16_FetchBeforeWriteThenAttachments ==
    \A r \in Runs :
        req[r].round = 2 =>
            /\ writes[r] > 0 =>
                  /\ Len(staged[r]) >= 2
                  /\ staged[r][1].path = "index.html"
                  /\ staged[r][1].sha = BlobSha(before[r].files["index.html"])
                  /\ staged[r][2].path = "README.md"
                  /\ staged[r][2].sha = BlobSha(before[r].files["README.md"])
            /\ failedAt[r] \in {"get_repo", "stage"} =>
                  /\ writes[r] = 0
                  /\ repos[RepoOf(r)] = before[r]
            /\ failedAt[r] # "stage_att"
            /\ \A k \in 3..Len(staged[r]) :
                  /\ HasFile(before[r], staged[r][k].path)
                  /\ staged[r][k].sha = BlobSha(before[r].files[staged[r][k].path])
            /\ Published(r) =>
                  \A i \in DOMAIN Eligible(r) : Eligible(r)[i].name \in written[r]

\* The media type an attachment declares: the type/subtype that follows
\* "data:" in its URL ("" when the URL is no data URL).
DeclaredType(att) ==
    LET m == DataUrlMatch(att.url)
    IN IF m.matched /\ m.mime # <<>> THEN m.mime[1] ELSE ""

\* C17: in either round, every file a run has written other than the three
\* generated files carries the name of an attachment of the request whose
\* declared media type is CSV, JSON or Markdown; in particular an attachment
\* that declares an image type is never committed.
C17_OnlyTextDataAttachmentsWritten ==
    \A r \in Runs :
        /\ \A p \in written[r] \ CoreSet :
              \E i \in DOMAIN req[r].attachments :
                  /\ req[r].attachments[i].name = p
                  /\ DeclaredType(req[r].attachments[i]) \in CommitMimes
        /\ \A i \in DOMAIN req[r].attachments :
              LET att == req[r].attachments[i]
              IN (/\ DeclaredType(att) \in ImageTypes
                  /\ \A k \in DOMAIN req[r].attachments :
                        req[r].attachments[k].name = att.name
                            => DeclaredType(req[r].attachments[k]) \in ImageTypes)
                    => att.name \notin written[r]

\* A delivered run whose request carried an image attachment, which went into
\* the prompt: the repository has no file of its name.
C17_Witness ==
    \E r \in Runs :
        /\ outcome[r] = "ok"
        /\ blocks[r] # <<>>
        /\ \A i \in DOMAIN req[r].attachments :
              /\ DeclaredType(req[r].attachments[i]) \in ImageTypes
              /\ ~HasFile(repos[RepoOf(r)], req[r].attachments[i].name)

\* C18: every POST of a run carries one and the same payload: the email,
\* task, round and nonce of the request, the URL of the repository, the
\* commit identifier read from the branch head at the end of the run's
\* publishing call, and the pages URL.
C18_SamePayloadEveryAttempt ==
    \A r \in Runs :
        \A k \in DOMAIN posts[r] :
            /\ posts[r][k] = posts[r][1]
            /\ posts[r][k].email = req[r].email
            /\ posts[r][k].task = req[r].task
            /\ posts[r][k].round = req[r].round
            /\ posts[r][k].nonce = req[r].nonce
            /\ posts[r][k].repo_url =
                  <<"https://github.com/", GITHUB_USERNAME, get_repo_name(req[r].task)>>
            /\ posts[r][k].commit_sha = snapshot[r].head
            /\ posts[r][k].pages_url =
                  <<"https://", GITHUB_USERNAME, ".github.io/", get_repo_name(req[r].task), "/">>

\* The POST was delivered at the third attempt.
C18_Witness ==
    \E r \in Runs :
        /\ Len(posts[r]) = 3
        /\ outcome[r] = "ok"

\* C15: every accepted run terminates, whatever stage fails: a run that has
\* been handed to the background reaches its end, and the step that ends a
\* run leaves every other run where it was.
C15_EveryAcceptedRunEnds ==
    /\ \A r \in Runs : (pc[r] = "start") ~> (pc[r] = "done")
    /\ [][\A r \in Runs : (pc[r] # "done" /\ pc'[r] = "done") =>
             \A s \in Runs \ {r} : pc'[s] = pc[s] /\ outcome'[s] = outcome[s]]_vars

\* The round-1 run failed inside its publishing call and the round-2 run,
\* which began with no repository, was delivered afterwards.
C15_Witness ==
    \E r \in Runs, s \in Runs :
        /\ r # s
        /\ pc[r] = "done" /\ failedAt[r] = "create_att"
        /\ pc[s] = "done" /\ outcome[s] = "ok"
        /\ ~before[r].exists

\* The round-1 run r has gone past create_repo without the conflict.
PastCreate(r) ==
    /\ req[r].round = 1
    /\ \/ pc[r] \in {"create_core", "create_att", "create_head", "notify", "notify_sleep"}
       \/ (pc[r] = "done" /\ failedAt[r] \in {"create_file", "create_att", "head", "notify"})
       \/ outcome[r] = "ok"

\* C12: of two round-1 runs for the same task that run concurrently, at most
\* one gets past create_repo; a run that called create_repo without creating
\* the repository has ended as failed there, has written no file and has
\* sent no POST, under every interleaving.
C12_OneCreatorLoserSilent ==
    \A r \in Runs, s \in Runs :
        (r # s /\ req[r].round = 1 /\ req[s].round = 1 /\ req[r].task = req[s].task) =>
            /\ ~(PastCreate(r) /\ PastCreate(s))
            /\ (pubCalls[r] = 1 /\ ~PastCreate(r)) =>
                  /\ pc[r] = "done" /\ outcome[r] = "failed"
                  /\ failedAt[r] = "create_repo"
                  /\ writes[r] = 0 /\ written[r] = {}
                  /\ posts[r] = <<>> /\ payload[r] = <<>>

\* Both runs began with no repository; one created it and was delivered, the
\* other met the conflict.
C12_Witness ==
    \E r \in Runs, s \in Runs :
        /\ r # s /\ req[r].round = 1 /\ req[s].round = 1
        /\ ~before[r].exists /\ ~before[s].exists
        /\ outcome[r] = "ok"
        /\ failedAt[s] = "create_repo"

\* C13: two round-2 runs on one repository are not coordinated. Every
\* update a run commits goes with the token the file has at that moment (the
\* formula), and still there is an interleaving of the fetches and the
\* commits after which index.html is the one run's and README.md the other's
\* (the witness).
C13_UpdateOnlyWithCurrentToken ==
    [][\A r \in Runs :
          (pc[r] = "commit" /\ writes'[r] = writes[r] + 1) =>
              LET f == staged[r][idx[r]]
              IN /\ HasFile(repos[RepoOf(r)], f.path)
                 /\ f.sha = BlobSha(repos[RepoOf(r)].files[f.path])
                 /\ repos'[RepoOf(r)].files[f.path] = f.content]_vars

\* Both round-2 runs have ended; the repository holds the markup generated by
\* one and the documentation generated by the other, and the two generations
\* differ in both.
C13_Witness ==
    \E r \in Runs, s \in Runs :
        /\ r # s /\ req[r].round = 2 /\ req[s].round = 2
        /\ pc[r] = "done" /\ pc[s] = "done"
        /\ gen[r].html # gen[s].html /\ gen[r].readme # gen[s].readme
        /\ "index.html" \in written[s] /\ "README.md" \in written[r]
        /\ repos[RepoOf(r)].files["index.html"] = gen[s].html
        /\ repos[RepoOf(r)].files["README.md"] = gen[r].readme

\* C20: no step deletes a repository or a file of it, or creates a
\* repository that is there again; a round-1 run that calls create_repo
\* while the repository exists (as it does once an earlier run has created it,
\* however that run ended) ends there as failed with no write and no POST,
\* and a run that has ended does nothing more.
C20_RepoStaysAndBlocksRoundOne ==
    [][/\ \A n \in RepoNames :
             repos[n].exists =>
                 /\ repos'[n].exists
                 /\ DOMAIN repos[n].files \subseteq DOMAIN repos'[n].files
       /\ \A r \in Runs :
             /\ (/\ req[r].round = 1
                 /\ pc[r] = "create_repo" /\ pc'[r] # "create_repo"
                 /\ repos[RepoOf(r)].exists) =>
                    /\ pc'[r] = "done" /\ outcome'[r] = "failed"
                    /\ failedAt'[r] = "create_repo"
                    /\ writes'[r] = 0 /\ posts'[r] = <<>>
                    /\ repos' = repos
             /\ pc[r] = "done" =>
                    /\ pc'[r] = "done"
                    /\ writes'[r] = writes[r] /\ posts'[r] = posts[r]]_vars

\* A round-1 run created the repository and its three files and then
\* aborted; a round-1 run that began after that met the conflict.
C20_Witness ==
    \E r \in Runs, s \in Runs :
        /\ r # s /\ req[r].round = 1 /\ req[s].round = 1
        /\ ~before[r].exists
        /\ pc[r] = "done" /\ failedAt[r] \in {"create_att", "head", "notify"}
        /\ before[s] = repos[RepoOf(s)]
        /\ before[s].head = [by |-> r, n |-> writes[r]]
        /\ failedAt[s] = "create_repo"
        /\ writes[s] = 0 /\ posts[s] = <<>>

\* No other run has written to the repository of r since r began: every
\* other run has written nothing, or its last write is the head r found.
NoOtherWriter(r) ==
    \A s \in Runs \ {r} :
        \/ writes[s] = 0
        \/ before[r].head = [by |-> s, n |-> writes[s]]

\* C21: the commit identifier of a run's payload is the branch head read
\* after all the writes of the run; when no other run has written to the
\* repository since the run began it is the last commit of the run itself,
\* and otherwise it is a commit of one of the runs.
C21_PayloadCommitIsHeadAfterWrites ==
    \A r \in Runs :
        payload[r] # <<>> =>
            LET sha == payload[r][1].commit_sha
            IN /\ sha = snapshot[r].head
               /\ writes[r] > 0
               /\ sha.by \in Runs
               /\ sha.by = r => sha.n = writes[r]
               /\ NoOtherWriter(r) => sha = [by |-> r, n |-> writes[r]]

\* The round-1 run created the repository, the round-2 run began after that
\* and its payload carries its own last commit; the round-1 run read the
\* head after it, and its payload carries the commit of the round-2 run.
C21_Witness ==
    \E r \in Runs, s \in Runs :
        /\ r # s
        /\ payload[r] # <<>> /\ payload[s] # <<>>
        /\ NoOtherWriter(r)
        /\ payload[r][1].commit_sha = [by |-> r, n |-> writes[r]]
        /\ payload[s][1].commit_sha = [by |-> r, n |-> writes[r]]
        /\ writes[s] > 0

====
